---- MODULE Spec2Model ----
(***************************************************************************)
(* A model of node-streamcount: the FNV-1a hash, the multiply-shift bucket *)
(* selection, the MinHeap, the CountMinSketch with its bounded top-K set   *)
(* and the HyperLogLog registers.                                          *)
(*                                                                         *)
(* JavaScript numbers that are 32-bit quantities are kept as two 16-bit    *)
(* limbs <<hi, lo>> (value hi * 65536 + lo), since the model checker's     *)
(* integers are narrower than 2^32.                                        *)
(***************************************************************************)
EXTENDS Integers, Sequences, FiniteSets, TLC

\* ------------------------------------------------------------------------
\* 32-bit arithmetic on limbs
\* ------------------------------------------------------------------------

\* One 16-bit limb holds values 0 .. Limb - 1.
Limb == 65536

RECURSIVE Pow2(_)
Pow2(n) == IF n = 0 THEN 1 ELSE 2 * Pow2(n - 1)

\* a ^ b on the low n bits of two non-negative integers.
RECURSIVE BitXor(_, _, _)
BitXor(a, b, n) ==
  IF n = 0 THEN 0
  ELSE (((a % 2) + (b % 2)) % 2) + 2 * BitXor(a \div 2, b \div 2, n - 1)

\* (h << k) truncated to 32 bits, for 0 <= k < 32.
Shl32(h, k) ==
  IF k >= 16
    THEN << (h[2] * Pow2(k - 16)) % Limb, 0 >>
    ELSE << (h[1] * Pow2(k) + (h[2] * Pow2(k)) \div Limb) % Limb,
            (h[2] * Pow2(k)) % Limb >>

\* (g + h) truncated to 32 bits.
Add32(g, h) ==
  << (g[1] + h[1] + (g[2] + h[2]) \div Limb) % Limb, (g[2] + h[2]) % Limb >>

\* ------------------------------------------------------------------------
\* Keys: JavaScript strings, given by their UTF-16 code units
\* ------------------------------------------------------------------------

\* The length of the long key: its UTF-8 form does not fit the one-byte
\* key length of the serialized form.
LongKeyLen == 256

\* The keys the callers pass.  "constructor" names a member of
\* Object.prototype; "hp4gi_" hashes to 0x80000000; "long" stands for the
\* string of LongKeyLen letters x.
Keys == {"a", "A", "b", "constructor", "hp4gi_", "long", "toString", "user2"}

CodeUnits(key) ==
  CASE key = "a" -> << 97 >>
    [] key = "A" -> << 65 >>
    [] key = "b" -> << 98 >>
    [] key = "user1" -> << 117, 115, 101, 114, 49 >>
    [] key = "user2" -> << 117, 115, 101, 114, 50 >>
    [] key = "user3" -> << 117, 115, 101, 114, 51 >>
    [] key = "toString" -> << 116, 111, 83, 116, 114, 105, 110, 103 >>
    [] key = "constructor" ->
         << 99, 111, 110, 115, 116, 114, 117, 99, 116, 111, 114 >>
    [] key = "hp4gi_" -> << 104, 112, 52, 103, 105, 95 >>
    [] key = "long" -> [i \in 1..LongKeyLen |-> 120]
    [] key = "x120" -> [i \in 1..120 |-> 120]
    [] key = "" -> << >>

\* The strings a sketch can hold: the keys, and what a key can be read back
\* as from a buffer ("x120" stands for the string of 120 letters x).
Strings == Keys \cup {"", "x120"}

\* ------------------------------------------------------------------------
\* hashing.fnv1a
\* ------------------------------------------------------------------------

\* The offset basis 2166136261 = 0x811C9DC5.
FnvBasis == << 33052, 40389 >>

\* One round: hash ^= charCodeAt(i), then
\* hash += (hash << 1) + (hash << 4) + (hash << 7) + (hash << 8) + (hash << 24),
\* the sum taken modulo 2^32 by the next ^= or by the final >>> 0.
FnvRound(hash, c) ==
  LET x == << hash[1], BitXor(hash[2], c, 16) >>
  IN  Add32(x, Add32(Shl32(x, 1), Add32(Shl32(x, 4),
        Add32(Shl32(x, 7), Add32(Shl32(x, 8), Shl32(x, 24))))))

\* The hash after code units lo .. hi of text, starting from hash: the
\* loop of fnv1a.  The range is split in halves, the first half's hash
\* computed before the second half is entered, which keeps the evaluation
\* shallow for a long text.
RECURSIVE FnvFold(_, _, _, _)
FnvFold(hash, text, lo, hi) ==
  IF lo > hi THEN hash
  ELSE IF lo = hi THEN FnvRound(hash, text[lo])
  ELSE LET mid == (lo + hi) \div 2
           left == FnvFold(hash, text, lo, mid)
       IN  IF left[1] >= 0 THEN FnvFold(left, text, mid + 1, hi) ELSE left

fnv1a(text) == FnvFold(FnvBasis, text, 1, Len(text))

\* The hash of every key, computed once.
KeyHash == [k \in Strings |-> fnv1a(CodeUnits(k))]

\* ------------------------------------------------------------------------
\* JavaScript numbers that are not numbers
\* ------------------------------------------------------------------------

\* Counts are non-negative; two negative values stand for the results that
\* are no count: NaN, and the undefined read of an index outside an array.
NaN == -1
Undefined == -2

IsNumber(v) == v >= 0

\* Math.min(a, b): NaN when either argument is NaN or undefined.
MathMin(a, b) ==
  IF IsNumber(a) /\ IsNumber(b) THEN (IF a <= b THEN a ELSE b) ELSE NaN

\* a + b on counts.
Plus(a, b) == IF IsNumber(a) /\ IsNumber(b) THEN a + b ELSE NaN

\* a === b: NaN equals nothing, undefined equals undefined only.
StrictEquals(a, b) == a # NaN /\ b # NaN /\ a = b

\* a >= b: false when either side is NaN or undefined.
GreaterOrEqual(a, b) == IsNumber(a) /\ IsNumber(b) /\ a >= b

\* The sign of a - b as a comparator returns it: "neg", "zero", "pos", or
\* "NaN" when a count is no number.
Difference(a, b) ==
  IF ~(IsNumber(a) /\ IsNumber(b)) THEN "NaN"
  ELSE IF a < b THEN "neg" ELSE IF a > b THEN "pos" ELSE "zero"

\* ------------------------------------------------------------------------
\* countMinSketch: comparators and multiplyShift
\* ------------------------------------------------------------------------

INT_SIZE == 32

sortAsc(a, b) == Difference(a[1], b[1])

sortDesc(a, b) == Difference(b[1], a[1])

\* Math.abs((a * x) & MAX_INT) >> (INT_SIZE - m), for a coefficient a small
\* enough that a * x is exact, x a 32-bit hash in limbs.  (a * x) & MAX_INT
\* is the signed 32-bit value of the product; its absolute value is at most
\* 2^31, which >> reads as -2^31.  The shift count is taken modulo 32.
multiplyShift(m, a, x) ==
  LET plo == (a * x[2]) % Limb
      phi == (a * x[1] + (a * x[2]) \div Limb) % Limb
      negative == phi >= Limb \div 2
      ahi == IF ~negative THEN phi
             ELSE IF plo = 0 THEN Limb - phi ELSE Limb - 1 - phi
      alo == IF ~negative \/ plo = 0 THEN plo ELSE Limb - plo
      s == (INT_SIZE - m) % 32
  IN  IF ahi = Limb \div 2
        THEN IF s = 31 THEN -1 ELSE -(Pow2(31 - s))
        ELSE IF s >= 16 THEN ahi \div Pow2(s - 16)
             ELSE (ahi * Limb + alo) \div Pow2(s)

\* ------------------------------------------------------------------------
\* MinHeap over a sequence of [count, key] tuples; index i of the code is
\* element i + 1 of the sequence
\* ------------------------------------------------------------------------

left(i) == 2 * i + 1

right(i) == 2 * i + 2

\* Math.ceil(i / 2) - 1
parent(i) == ((i + 1) \div 2) - 1

Swap(h, i, j) == [h EXCEPT ![i + 1] = h[j + 1], ![j + 1] = h[i + 1]]

\* this.compare, the comparator the sketch hands to its heap.
compare(a, b) == sortAsc(a, b)

RECURSIVE heapify(_, _)
heapify(h, i) ==
  LET lIdx == left(i)
      rIdx == right(i)
      s1 == IF lIdx < Len(h) /\ compare(h[lIdx + 1], h[i + 1]) = "neg"
              THEN lIdx ELSE i
      smallest == IF rIdx < Len(h) /\ compare(h[rIdx + 1], h[s1 + 1]) = "neg"
                    THEN rIdx ELSE s1
  IN  IF i # smallest THEN heapify(Swap(h, i, smallest), smallest) ELSE h

RECURSIVE siftUp(_, _)
siftUp(h, i) ==
  LET p == parent(i)
  IN  IF p >= 0 /\ compare(h[p + 1], h[i + 1]) = "pos"
        THEN siftUp(Swap(h, p, i), p)
        ELSE h

RECURSIVE HeapifyFrom(_, _)
HeapifyFrom(h, i) == IF i < 0 THEN h ELSE HeapifyFrom(heapify(h, i), i - 1)

heapifyArray(h) == HeapifyFrom(h, (Len(h) \div 2) - 1)

\* push without siftUp: the item stays where it was appended.
pushAppend(h, item) == Append(h, item)

push(h, item) == siftUp(Append(h, item), Len(h))

\* pop: the heap that is left, and the value returned (Undefined when the
\* heap is empty).
PopHeap(h) ==
  IF Len(h) > 1
    THEN heapify([i \in 1..(Len(h) - 1) |-> IF i = 1 THEN h[Len(h)] ELSE h[i]], 0)
    ELSE << >>

PopValue(h) == IF Len(h) >= 1 THEN h[1] ELSE Undefined

\* ------------------------------------------------------------------------
\* Array.prototype.sort as Node runs it on an array of fewer than 64
\* elements: the first run is found (and reversed when it is strictly
\* descending), the rest is inserted by binary search.  A comparator result
\* that is NaN counts as 0.
\* ------------------------------------------------------------------------

SortCompare(dir, a, b) == IF dir = "asc" THEN sortAsc(a, b) ELSE sortDesc(a, b)

\* The length of the run that starts the array, when it reaches at least to
\* element idx - 1.
RECURSIVE RunEnd(_, _, _, _)
RunEnd(a, dir, descending, idx) ==
  IF idx > Len(a) THEN Len(a)
  ELSE LET order == SortCompare(dir, a[idx], a[idx - 1])
       IN  IF (descending /\ order # "neg") \/ (~descending /\ order = "neg")
             THEN idx - 1
             ELSE RunEnd(a, dir, descending, idx + 1)

ReversePrefix(a, n) == [i \in 1..Len(a) |-> IF i <= n THEN a[n + 1 - i] ELSE a[i]]

\* The index (of the code, from 0) at which the pivot goes into a[lo..hi-1].
RECURSIVE InsertionPoint(_, _, _, _, _)
InsertionPoint(a, dir, pivot, lo, hi) ==
  IF lo >= hi THEN lo
  ELSE LET mid == lo + ((hi - lo) \div 2)
       IN  IF SortCompare(dir, pivot, a[mid + 1]) = "neg"
             THEN InsertionPoint(a, dir, pivot, lo, mid)
             ELSE InsertionPoint(a, dir, pivot, mid + 1, hi)

\* Element start (from 0) moved down to index at, the elements between
\* shifted up by one.
MoveTo(a, start, at) ==
  [i \in 1..Len(a) |->
     IF i - 1 < at \/ i - 1 > start THEN a[i]
     ELSE IF i - 1 = at THEN a[start + 1] ELSE a[i - 1]]

RECURSIVE BinaryInsertionSort(_, _, _)
BinaryInsertionSort(a, dir, start) ==
  IF start >= Len(a) THEN a
  ELSE BinaryInsertionSort(
         MoveTo(a, start, InsertionPoint(a, dir, a[start + 1], 0, start)),
         dir, start + 1)

ArraySort(a, dir) ==
  IF Len(a) < 2 THEN a
  ELSE LET descending == SortCompare(dir, a[2], a[1]) = "neg"
           run == RunEnd(a, dir, descending, 3)
           b == IF descending THEN ReversePrefix(a, run) ELSE a
       IN  BinaryInsertionSort(b, dir, run)

\* ------------------------------------------------------------------------
\* CountMinSketch
\* ------------------------------------------------------------------------

\* 0xFFFFFFFF in the code, where it starts the minimum over the rows.  The
\* model's integers end at 2^31 - 1; every count of the model is far below
\* both, so the minimum of MAX_INT and a count is that count either way.
MAX_INT == 2147483647

\* maxEntries of a sketch built from deserialized data.
Null == -3

\* Number(v) where the code compares with maxEntries: null counts as 0.
ToNumber(v) == IF v = Null THEN 0 ELSE v

\* The members every object inherits from Object.prototype: map[key] is not
\* undefined for them although map holds no such key.
ObjectPrototypeMembers ==
  {"constructor", "toString", "valueOf", "hasOwnProperty", "isPrototypeOf",
   "propertyIsEnumerable", "toLocaleString"}

\* map[key] === undefined, map given by the set of its own keys.
MapUndefined(map, key) == key \notin map /\ key \notin ObjectPrototypeMembers

\* Math.ceil(log2(width)) for width >= 1.
RECURSIVE CeilLog2(_)
CeilLog2(width) == IF width <= 1 THEN 0 ELSE 1 + CeilLog2((width + 1) \div 2)

\* randomOddInt for a draw n = Math.floor(prng.random() * (INT_SIZE - 2)).
randomOddInt(n) == 2 * n + 1

\* The sketch the constructor builds from (maxEntries, epsilon, delta):
\* depth is Math.max(Math.ceil(Math.log(1.0 / delta)), 1), rawWidth is
\* Math.ceil(Math.E / epsilon), draws are the row draws of the generator.
NewSketch(maxEntries, depth, rawWidth, draws) ==
  LET lgWidth == CeilLog2(rawWidth)
      width == Pow2(lgWidth)
  IN  [maxEntries |-> maxEntries,
       lgWidth |-> lgWidth,
       counts |-> [i \in 1..depth |-> [j \in 1..width |-> 0]],
       hashFunctions |-> [i \in 1..depth |-> randomOddInt(draws[i])],
       heap |-> << >>,
       map |-> {},
       mapLen |-> 0]

\* The bucket index of key in row i.
Bucket(s, i, key) == multiplyShift(s.lgWidth, s.hashFunctions[i], KeyHash[key])

\* counts[i][j] as the code reads it: undefined outside the row.
CountAt(s, i, j) ==
  IF j >= 0 /\ j < Len(s.counts[i]) THEN s.counts[i][j + 1] ELSE Undefined

\* The lowest stored value in the buckets of key: est after the first loop
\* of increment.
RECURSIVE EstimateRows(_, _, _)
EstimateRows(s, key, i) ==
  IF i = 0 THEN MAX_INT
  ELSE MathMin(EstimateRows(s, key, i - 1), CountAt(s, i, Bucket(s, i, key)))

Estimate(s, key) == EstimateRows(s, key, Len(s.hashFunctions))

\* A second loop that sets every bucket of key to est + incrementBy,
\* whatever it holds.
OverwriteUpdate(s, key, incrementBy) ==
  LET est == Estimate(s, key)
  IN  [i \in 1..Len(s.counts) |->
        [j \in 1..Len(s.counts[i]) |->
          IF j - 1 = Bucket(s, i, key)
            THEN Plus(est, incrementBy)
            ELSE s.counts[i][j]]]

\* The second loop of increment: a bucket of key is set to est + incrementBy
\* only when it holds est.
ConservativeUpdate(s, key, incrementBy) ==
  LET est == Estimate(s, key)
  IN  [i \in 1..Len(s.counts) |->
        [j \in 1..Len(s.counts[i]) |->
          IF j - 1 = Bucket(s, i, key) /\ StrictEquals(s.counts[i][j], est)
            THEN Plus(est, incrementBy)
            ELSE s.counts[i][j]]]

\* probe[0] = est: the tuple of key, where the heap holds it, gets the count.
SetCount(heap, key, est) ==
  [i \in 1..Len(heap) |-> IF heap[i][2] = key THEN << est, key >> ELSE heap[i]]

\* updateHeap without the eviction: a new tuple is pushed whatever the size.
updateHeapKeepsAll(s, key, est) ==
  IF MapUndefined(s.map, key)
    THEN [s EXCEPT !.heap = push(s.heap, << est, key >>),
                   !.mapLen = s.mapLen + 1,
                   !.map = s.map \cup {key}]
    ELSE [s EXCEPT !.heap = ArraySort(SetCount(s.heap, key, est), "asc")]

updateHeap(s, key, est) ==
  IF Len(s.heap) > 0 /\ GreaterOrEqual(s.heap[1][1], est)
       /\ s.mapLen >= ToNumber(s.maxEntries)
    THEN s
  ELSE IF MapUndefined(s.map, key)
    THEN LET entry == << est, key >>
         IN  IF s.mapLen < ToNumber(s.maxEntries)
               THEN [s EXCEPT !.heap = push(s.heap, entry),
                              !.mapLen = IF MapUndefined(s.map, key)
                                           THEN s.mapLen + 1 ELSE s.mapLen,
                              !.map = s.map \cup {key}]
               ELSE LET pushed == push(s.heap, entry)
                        oldEntry == PopValue(pushed)
                        map1 == s.map \ {oldEntry[2]}
                    IN  [s EXCEPT !.heap = PopHeap(pushed),
                                  !.mapLen = IF MapUndefined(map1, key)
                                               THEN s.mapLen ELSE s.mapLen - 1,
                                  !.map = map1 \cup {key}]
    ELSE [s EXCEPT !.heap = ArraySort(
                     IF key \in s.map THEN SetCount(s.heap, key, est) ELSE s.heap,
                     "asc")]

\* Whether increment(key, incrementBy) throws.
incrementThrows(incrementBy) == incrementBy < 0

\* increment without its checks of incrementBy.
incrementUnguarded(s, key, incrementBy) ==
  updateHeap([s EXCEPT !.counts = ConservativeUpdate(s, key, incrementBy)],
             key, Plus(Estimate(s, key), incrementBy))

\* The sketch after increment(key, incrementBy): as it was when the call
\* throws, or returns at once for incrementBy === 0.
increment(s, key, incrementBy) ==
  IF incrementBy < 0 THEN s
  ELSE IF incrementBy = 0 THEN s
  ELSE updateHeap([s EXCEPT !.counts = ConservativeUpdate(s, key, incrementBy)],
                  key, Plus(Estimate(s, key), incrementBy))

\* getTopK without the sort: the heap's array as it is.
getTopKUnsorted(s) == s.heap

\* getTopK(): a copy of the heap's array, sorted by sortDesc.
getTopK(s) == ArraySort(s.heap, "desc")

\* ------------------------------------------------------------------------
\* Buffers: sequences of bytes; offset pos of the code is element pos + 1
\* ------------------------------------------------------------------------

\* The bytes writeUInt32LE stores for a count or a size: NaN is stored as 0.
UInt32LE(v) ==
  LET n == IF IsNumber(v) THEN v ELSE 0
  IN  << n % 256, (n \div 256) % 256, (n \div 65536) % 256, (n \div 16777216) % 256 >>

\* buffer.readUInt32LE(pos): a number below 2^31 as that number, one from
\* 2^31 on as its two 16-bit halves.
readUInt32LE(buffer, pos) ==
  IF buffer[pos + 4] < 128
    THEN buffer[pos + 1] + 256 * buffer[pos + 2] + 65536 * buffer[pos + 3]
           + 16777216 * buffer[pos + 4]
    ELSE << buffer[pos + 3] + 256 * buffer[pos + 4],
            buffer[pos + 1] + 256 * buffer[pos + 2] >>

\* The UTF-8 bytes of one code unit (no surrogate is among the keys).
Utf8Unit(c) ==
  IF c < 128 THEN << c >>
  ELSE IF c < 2048 THEN << 192 + (c \div 64), 128 + (c % 64) >>
  ELSE << 224 + (c \div 4096), 128 + ((c \div 64) % 64), 128 + (c % 64) >>

RECURSIVE Utf8Range(_, _, _)
Utf8Range(units, lo, hi) ==
  IF lo > hi THEN << >>
  ELSE IF lo = hi THEN Utf8Unit(units[lo])
  ELSE LET mid == (lo + hi) \div 2
       IN  Utf8Range(units, lo, mid) \o Utf8Range(units, mid + 1, hi)

\* The UTF-8 form of a string.
Utf8 == [k \in Strings |-> Utf8Range(CodeUnits(k), 1, Len(CodeUnits(k)))]

\* Buffer.byteLength(key)
ByteLength == [k \in Strings |-> Len(Utf8[k])]

\* The code unit that the bytes from index i on decode to, bytes[i] being
\* no continuation byte.
UnitAt(bytes, i) ==
  IF bytes[i] < 128 THEN bytes[i]
  ELSE IF bytes[i] < 224 /\ i + 1 <= Len(bytes)
    THEN (bytes[i] - 192) * 64 + (bytes[i + 1] - 128)
  ELSE IF i + 2 <= Len(bytes)
    THEN (bytes[i] - 224) * 4096 + (bytes[i + 1] - 128) * 64 + (bytes[i + 2] - 128)
  ELSE 65533

RECURSIVE DecodeRange(_, _, _)
DecodeRange(bytes, lo, hi) ==
  IF lo > hi THEN << >>
  ELSE IF lo = hi
    THEN (IF bytes[lo] >= 128 /\ bytes[lo] < 192 THEN << >> ELSE << UnitAt(bytes, lo) >>)
  ELSE LET mid == (lo + hi) \div 2
       IN  DecodeRange(bytes, lo, mid) \o DecodeRange(bytes, mid + 1, hi)

\* The string that well-formed UTF-8 bytes decode to, by its name;
\* "(other)" is any string that has none.
KeyOfBytes(bytes) ==
  LET units == DecodeRange(bytes, 1, Len(bytes))
  IN  IF \E k \in Strings : CodeUnits(k) = units
        THEN CHOOSE k \in Strings : CodeUnits(k) = units
        ELSE "(other)"

\* ------------------------------------------------------------------------
\* CountMinSketch: serialize and deserialize
\* ------------------------------------------------------------------------

RECURSIVE Concat(_, _)
Concat(seqs, n) == IF n = 0 THEN << >> ELSE Concat(seqs, n - 1) \o seqs[n]

\* One heap tuple as serialize writes it: the count, the key's byte length
\* in one byte (writeUInt8 without a range check keeps its low 8 bits), the
\* key's UTF-8 bytes.
EntryBytes(entry) ==
  UInt32LE(entry[1]) \o << ByteLength[entry[2]] % 256 >> \o Utf8[entry[2]]

\* serialize()
serialize(s) ==
  LET depth == Len(s.counts)
      width == Len(s.counts[1])
      rows == [i \in 1..depth |->
                 Concat([j \in 1..width |-> UInt32LE(s.counts[i][j])], width)]
  IN  UInt32LE(s.lgWidth) \o UInt32LE(depth) \o UInt32LE(width)
        \o Concat(rows, depth)
        \o UInt32LE(Len(s.hashFunctions))
        \o Concat([i \in 1..Len(s.hashFunctions) |-> UInt32LE(s.hashFunctions[i])],
                  Len(s.hashFunctions))
        \o UInt32LE(Len(s.heap))
        \o Concat([i \in 1..Len(s.heap) |-> EntryBytes(s.heap[i])], Len(s.heap))

\* Whether serialize throws where Buffer checks the range of what it is
\* given although noAssert is passed: writeUInt8 of a key length above 255.
serializeOverflows(s) == \E i \in 1..Len(s.heap) : ByteLength[s.heap[i][2]] > 255

\* The heap tuples read from offset pos on, n of them.
RECURSIVE ReadEntries(_, _, _)
ReadEntries(buffer, pos, n) ==
  IF n = 0 THEN << >>
  ELSE LET est == readUInt32LE(buffer, pos)
           keyLen == buffer[pos + 5]
           key == KeyOfBytes(SubSeq(buffer, pos + 6, pos + 5 + keyLen))
       IN  << << est, key >> >> \o ReadEntries(buffer, pos + 5 + keyLen, n - 1)

\* new CountMinSketch(null, null, null, lgWidth, counts, hashFunctions, heap):
\* the key index is rebuilt from the heap, which MinHeap heapifies.
Restored(lgWidth, counts, hashFunctions, heap) ==
  [maxEntries |-> Null,
   lgWidth |-> lgWidth,
   counts |-> counts,
   hashFunctions |-> hashFunctions,
   heap |-> heapifyArray(heap),
   map |-> {heap[i][2] : i \in 1..Len(heap)},
   mapLen |-> Len(heap)]

\* CountMinSketch.deserialize(buffer), the whole buffer read from offset 0.
deserialize(buffer) ==
  LET lgWidth == readUInt32LE(buffer, 0)
      depth == readUInt32LE(buffer, 4)
      width == readUInt32LE(buffer, 8)
      counts == [i \in 1..depth |->
                  [j \in 1..width |->
                    readUInt32LE(buffer, 12 + ((i - 1) * width + (j - 1)) * 4)]]
      pos1 == 12 + depth * width * 4
      hashFunctionsLen == readUInt32LE(buffer, pos1)
      hashFunctions == [i \in 1..hashFunctionsLen |->
                         readUInt32LE(buffer, pos1 + 4 + (i - 1) * 4)]
      pos2 == pos1 + 4 + hashFunctionsLen * 4
      heapLen == readUInt32LE(buffer, pos2)
  IN  Restored(lgWidth, counts, hashFunctions, ReadEntries(buffer, pos2 + 4, heapLen))

\* ------------------------------------------------------------------------
\* HyperLogLog
\* ------------------------------------------------------------------------

\* hash >>> 1
ShiftRightOne(hash) == << hash[1] \div 2, (hash[1] % 2) * 32768 + (hash[2] \div 2) >>

\* hash >>> n as a number, the shift count taken modulo 32.
ShiftRight(hash, n) ==
  LET c == n % 32
  IN  IF c >= 16 THEN hash[1] \div Pow2(c - 16)
      ELSE hash[1] * Pow2(16 - c) + (hash[2] \div Pow2(c))

\* The loop of rank: r after it, from r and hash before it.
RECURSIVE RankLoop(_, _, _)
RankLoop(hash, max, r) ==
  IF hash[2] % 2 = 0 /\ r <= max
    THEN RankLoop(ShiftRightOne(hash), max, r + 1)
    ELSE r

\* rank without the bound on r: the loop runs to the lowest 1 bit.
rankUnbounded(hash, max) == RankLoop(hash, INT_SIZE, 1)

\* rank(hash, max)
rank(hash, max) == RankLoop(hash, max, 1)

\* Math.ceil(log2(acc * acc)) for acc = 1.04 / stdError, stdError given in
\* hundredths and not above 1.04: the least k from k0 on with
\* 2^k >= (104 / stdError)^2.
RECURSIVE IndexBits(_, _)
IndexBits(stdError, k0) ==
  IF Pow2(k0) * stdError * stdError >= 104 * 104 THEN k0
  ELSE IndexBits(stdError, k0 + 1)

\* alpha_m, as the fraction << numerator, denominator >>.
AlphaM(m) ==
  IF m = 16 THEN << 673, 1000 >>
  ELSE IF m = 32 THEN << 697, 1000 >>
  ELSE IF m = 64 THEN << 709, 1000 >>
  ELSE << 7213 * m, 10000 * m + 10790 >>

\* new HyperLogLog(stdError)
NewHyperLogLog(stdError) ==
  LET k == IndexBits(stdError, 0)
      m == Pow2(k)
  IN  [M |-> [i \in 1..m |-> 0], k_comp |-> 32 - k, alpha_m |-> AlphaM(m)]

\* Math.max(a, b)
MathMax(a, b) ==
  IF ~IsNumber(a) \/ ~IsNumber(b) THEN NaN ELSE IF a >= b THEN a ELSE b

\* add that counts the keys of a register instead of keeping the highest
\* rank.
addCounts(h, key) ==
  LET j == ShiftRight(KeyHash[key], h.k_comp)
  IN  [h EXCEPT !.M[j + 1] = h.M[j + 1] + 1]

\* add(key): register j is element j + 1 of M.
add(h, key) ==
  LET hash == KeyHash[key]
      j == ShiftRight(hash, h.k_comp)
  IN  [h EXCEPT !.M[j + 1] = MathMax(h.M[j + 1], rank(hash, h.k_comp))]

\* Whether merge(hyperLogLog) throws.
mergeThrows(h, hyperLogLog) == Len(hyperLogLog.M) # Len(h.M)

\* merge that takes the other structure's registers as they are.
mergeAdopts(h, hyperLogLog) ==
  IF mergeThrows(h, hyperLogLog) THEN h
  ELSE [h EXCEPT !.M = hyperLogLog.M]

\* merge without the check of the sizes: the loop runs over the other
\* structure's registers, and one that this structure lacks compares false.
mergeUnchecked(h, hyperLogLog) ==
  [h EXCEPT !.M = [i \in 1..Len(h.M) |->
                     IF i <= Len(hyperLogLog.M) /\ hyperLogLog.M[i] > h.M[i]
                       THEN hyperLogLog.M[i]
                       ELSE h.M[i]]]

\* merge that adds the other structure's registers to its own.
mergeAdds(h, hyperLogLog) ==
  IF mergeThrows(h, hyperLogLog) THEN h
  ELSE [h EXCEPT !.M = [i \in 1..Len(h.M) |-> h.M[i] + hyperLogLog.M[i]]]

\* The structure after merge(hyperLogLog): as it was when the call throws.
merge(h, hyperLogLog) ==
  IF mergeThrows(h, hyperLogLog) THEN h
  ELSE [h EXCEPT !.M = [i \in 1..Len(h.M) |->
                          IF hyperLogLog.M[i] > h.M[i] THEN hyperLogLog.M[i]
                          ELSE h.M[i]]]

\* count(): the sum c of 1 / Math.pow(2, M[i]) is held exactly, as
\* << whole, high, low >> for whole + high / 2^16 + low / 2^32; the
\* registers of a structure with at least one index bit are at most 32.
Carry(c) ==
  LET high == c[2] + (c[3] \div 65536)
  IN  << c[1] + (high \div 65536), high % 65536, c[3] % 65536 >>

\* How many of the registers hold r.
Holding(M, r) == Cardinality({i \in 1..Len(M) : M[i] = r})

\* The sum of 1 / Math.pow(2, M[i]) over the registers holding r..last, in
\* units of 1 / 2^last.
RECURSIVE InverseUnits(_, _, _)
InverseUnits(M, r, last) ==
  IF r > last THEN 0
  ELSE Holding(M, r) * Pow2(last - r) + InverseUnits(M, r + 1, last)

\* c after the first loop of count.
SumInverse(M) ==
  Carry(<< Holding(M, 0), InverseUnits(M, 1, 16), InverseUnits(M, 17, 32) >>)

\* Bit i (1 the highest, 32 the lowest) of the fraction of c.
FractionBit(c, i) ==
  IF i <= 16 THEN (c[2] \div Pow2(16 - i)) % 2
  ELSE (c[3] \div Pow2(32 - i)) % 2

\* Whether the fraction of c is at least t / q (t < q), bit by bit from bit
\* i on.
RECURSIVE FractionAtLeast(_, _, _, _)
FractionAtLeast(c, t, q, i) ==
  IF i > 32 THEN t = 0
  ELSE LET bit == IF 2 * t >= q THEN 1 ELSE 0
       IN  IF FractionBit(c, i) > bit THEN TRUE
           ELSE IF FractionBit(c, i) < bit THEN FALSE
           ELSE FractionAtLeast(c, 2 * t - bit * q, q, i + 1)

\* E <= 5 / 2 * m for E = alpha_m * m * m / c, that is
\* c >= 2 * alpha_m * m / 5.
SmallRange(alpha_m, m, c) ==
  LET p == 2 * alpha_m[1] * m
      q == 5 * alpha_m[2]
  IN  \/ c[1] > p \div q
      \/ c[1] = p \div q /\ FractionAtLeast(c, p % q, q, 1)

\* E > 1 / 30 * POW_2_32, that is c * 2^32 < 30 * alpha_m * m * m.
LargeRange(alpha_m, m, c) ==
  LET below == (30 * alpha_m[1] * m * m - 1) \div alpha_m[2]
  IN  /\ c[1] = 0
      /\ c[2] <= below \div 65536
      /\ c[2] * 65536 + c[3] <= below

\* V after the loop of the small range correction.
EmptyRegisters(M) == Cardinality({i \in 1..Len(M) : M[i] = 0})

\* count without the corrections.
countRaw(h) ==
  [estimate |-> "alpha_m * m * m / c", m |-> Len(h.M),
   V |-> EmptyRegisters(h.M), c |-> SumInverse(h.M)]

\* count(): the expression that gives the value returned, with the m, V and
\* c it is evaluated at.
count(h) ==
  LET m == Len(h.M)
      c == SumInverse(h.M)
      V == EmptyRegisters(h.M)
  IN  [estimate |->
         IF SmallRange(h.alpha_m, m, c)
           THEN (IF V > 0 THEN "m * Math.log(m / V)" ELSE "alpha_m * m * m / c")
         ELSE IF LargeRange(h.alpha_m, m, c)
           THEN "-POW_2_32 * Math.log(1 - E / POW_2_32)"
         ELSE "alpha_m * m * m / c",
       m |-> m, V |-> V, c |-> c]

\* Whether the value count returned is 0: alpha_m * m * m / c is positive,
\* the large range correction of a positive E is not 0, and
\* m * Math.log(m / V) is 0 exactly when m / V is 1.
IsZero(E) == E.estimate = "m * Math.log(m / V)" /\ E.V = E.m

\* ------------------------------------------------------------------------
\* HyperLogLog: serialize and deserialize
\* ------------------------------------------------------------------------

\* The register counts whose alpha_m the table of doubles below holds.
TabledSizes == {1, 2, 4, 8, 16, 32, 64}

\* The eight bytes writeDoubleLE stores: the IEEE 754 form of the double that
\* the expression for alpha_m evaluates to, low byte first.  A double read
\* from bytes that are none of these is kept by its bytes.
DoubleLE(v) ==
  CASE v = AlphaM(1) -> << 94, 192, 199, 131, 91, 52, 214, 63 >>
    [] v = AlphaM(2) -> << 96, 254, 53, 251, 95, 252, 221, 63 >>
    [] v = AlphaM(4) -> << 43, 118, 242, 196, 149, 45, 226, 63 >>
    [] v = AlphaM(8) -> << 31, 1, 195, 191, 164, 86, 228, 63 >>
    [] v = AlphaM(16) -> << 240, 167, 198, 75, 55, 137, 229, 63 >>
    [] v = AlphaM(32) -> << 231, 251, 169, 241, 210, 77, 230, 63 >>
    [] v = AlphaM(64) -> << 227, 165, 155, 196, 32, 176, 230, 63 >>
    [] OTHER -> v.bits

\* buffer.readDoubleLE(pos)
readDoubleLE(buffer, pos) ==
  LET bits == SubSeq(buffer, pos + 1, pos + 8)
  IN  IF \E m \in TabledSizes : DoubleLE(AlphaM(m)) = bits
        THEN AlphaM(CHOOSE m \in TabledSizes : DoubleLE(AlphaM(m)) = bits)
        ELSE [bits |-> bits]

\* serialize() that stores each register in one byte.
serializeShort(h) ==
  UInt32LE(h.k_comp) \o DoubleLE(h.alpha_m)
    \o [i \in 1..Len(h.M) |-> h.M[i] % 256]

\* serialize() of a HyperLogLog
serializeHLL(h) ==
  UInt32LE(h.k_comp) \o DoubleLE(h.alpha_m)
    \o Concat([i \in 1..Len(h.M) |-> UInt32LE(h.M[i])], Len(h.M))

\* v || d for an argument that is a number or left out.
OrDefault(v, d) == IF v = Undefined \/ v = 0 THEN d ELSE v

\* How HyperLogLog.deserialize(buffer, start, length) ends.  A length of 4
\* or 8 passes both checks; m is negative then and new Array(m) throws a
\* RangeError, if the reads past the 4 or 8 bytes have not thrown one.
deserializeOutcomeHLL(buffer, start, length) ==
  LET s == OrDefault(start, 0)
      l == OrDefault(length, Len(buffer))
  IN  IF s + l > Len(buffer) THEN "Error"
      ELSE IF l % 4 # 0 THEN "Error"
      ELSE IF l < 12 THEN "RangeError"
      ELSE "returned"

\* The structure HyperLogLog.deserialize(buffer, start, length) returns.
deserializeHLL(buffer, start, length) ==
  LET s == OrDefault(start, 0)
      l == OrDefault(length, Len(buffer))
      m == (l - 12) \div 4
  IN  [M |-> [i \in 1..m |-> readUInt32LE(buffer, s + 12 + (i - 1) * 4)],
       k_comp |-> readUInt32LE(buffer, s),
       alpha_m |-> readDoubleLE(buffer, s + 4)]

\* CountMinSketch.deserialize with a length that defaults to what follows
\* start.
deserializeOutcomeRest(buffer, start, length) ==
  LET s == OrDefault(start, 0)
      l == OrDefault(length, Len(buffer) - s)
  IN  IF s + l > Len(buffer) THEN "Error" ELSE "returned"

\* How CountMinSketch.deserialize(buffer, start, length) ends, for a buffer
\* that holds a sketch's bytes from start to its end.
deserializeOutcome(buffer, start, length) ==
  LET s == OrDefault(start, 0)
      l == OrDefault(length, Len(buffer))
  IN  IF s + l > Len(buffer) THEN "Error" ELSE "returned"

\* The sketch CountMinSketch.deserialize(buffer, start, length) returns: it
\* reads from pos = start on.
deserializeAt(buffer, start, length) ==
  deserialize(SubSeq(buffer, OrDefault(start, 0) + 1, Len(buffer)))

\* getUniquesObjSize(stdError), stdError in hundredths
getUniquesObjSize(stdError) == 12 + Pow2(IndexBits(stdError, 0)) * 4

\* new CountMinSketch(maxEntries, epsilon, delta): with maxEntries 0 the
\* constructor takes the branch for deserialized data, where heap is
\* undefined and heap.length throws a TypeError.
ConstructorThrows(maxEntries) == maxEntries = 0

\* ------------------------------------------------------------------------
\* Bounds of the model
\* ------------------------------------------------------------------------

\* maxEntries ranges over 0 .. MaxEntries.
MaxEntries == 2

\* incrementBy ranges over -1 .. MaxAmount.
MaxAmount == 3

\* The increments of one run add up to at most MaxTotal.
MaxTotal == 5

\* The constructor arguments tried beside maxEntries: depth is
\* Math.max(Math.ceil(Math.log(1.0 / delta)), 1) and rawWidth is
\* Math.ceil(Math.E / epsilon), for delta and epsilon in (0, 1); draws are
\* the values Math.floor(prng.random() * (INT_SIZE - 2)) of the rows.
Configs ==
  { [depth |-> 1, rawWidth |-> 3, draws |-> << 0 >>],
    [depth |-> 2, rawWidth |-> 3, draws |-> << 0, 2 >>] }

\* The keys the callers of the sketch pass.
SketchKeys == {"a", "A", "constructor", "hp4gi_"}

\* ------------------------------------------------------------------------
\* State
\* ------------------------------------------------------------------------

VARIABLES
  ctor,       \* the arguments the sketch was constructed with
  made,       \* whether the constructor returned an instance
  cms,        \* the sketch
  trueCount,  \* per key, the sum of the amounts incremented so far
  hlls,       \* the HyperLogLog structures, by name
  members,    \* for each of them, the keys that went into it
  lastCall,   \* the last call made and how it ended
  held,       \* the array a caller holds from an earlier getTopK()
  heapq,      \* the backing array of a MinHeap used on its own
  contents,   \* per item, how often it was put in less how often popped
  twin        \* a sketch deserialized from what the sketch serialized

vars == << ctor, made, cms, trueCount, hlls, members, lastCall, held,
           heapq, contents, twin >>

\* The items a heap is given: [count, key] tuples as the sketch builds them.
\* A count is NaN when increment estimated NaN.
HeapCounts == {1, 2, 3}

HeapItems ==
  {<< c, "a" >> : c \in HeapCounts \cup {NaN}} \cup {<< 2, "b" >>}

\* The tuples an initial array holds: deserialize reads each count with
\* readUInt32LE, so none is NaN.
RestoredItems == {item \in HeapItems : IsNumber(item[1])}

MaxInitial == 3
MaxHeapSize == 4

NoItems == [item \in HeapItems |-> 0]

NoSketch ==
  [maxEntries |-> Null, lgWidth |-> 0, counts |-> << >>,
   hashFunctions |-> << >>, heap |-> << >>, map |-> {}, mapLen |-> 0]

RECURSIVE SumOver(_, _)
SumOver(f, S) ==
  IF S = {} THEN 0
  ELSE LET x == CHOOSE y \in S : TRUE IN f[x] + SumOver(f, S \ {x})

Total == SumOver(trueCount, Keys)

Init ==
  /\ \E maxEntries \in 0..MaxEntries, c \in Configs :
       ctor = [maxEntries |-> maxEntries, depth |-> c.depth,
               rawWidth |-> c.rawWidth, draws |-> c.draws]
  /\ made = ~ConstructorThrows(ctor.maxEntries)
  /\ cms = IF made
             THEN NewSketch(ctor.maxEntries, ctor.depth, ctor.rawWidth, ctor.draws)
             ELSE NoSketch
  /\ trueCount = [k \in Keys |-> 0]
  /\ lastCall = [op |-> "new", key |-> "", amount |-> 0,
                 outcome |-> IF made THEN "returned" ELSE "TypeError"]
  /\ held = << >>
  /\ twin = NoSketch
  /\ heapq = << >>
  /\ contents = NoItems
  /\ hlls = << >>
  /\ members = << >>

\* What an increment does to the array a caller holds: its elements are the
\* heap's own tuples, so a tuple that is still in the heap shows the count
\* the heap holds for it, and a tuple that left the heap stays as it was.
Aliased(array, heap) ==
  [i \in 1..Len(array) |->
     IF array[i].live /\ \E n \in 1..Len(heap) : heap[n][2] = array[i].key
       THEN LET n == CHOOSE n \in 1..Len(heap) : heap[n][2] = array[i].key
            IN  [array[i] EXCEPT !.count = heap[n][1]]
       ELSE [array[i] EXCEPT !.live = FALSE]]

\* cms.increment(key, amount)
Increment(key, amount) ==
  /\ made
  /\ Total + (IF amount > 0 THEN amount ELSE 0) <= MaxTotal
  /\ cms' = increment(cms, key, amount)
  /\ trueCount' = [trueCount EXCEPT ![key] = @ + (IF amount > 0 THEN amount ELSE 0)]
  /\ held' = Aliased(held, cms'.heap)
  /\ lastCall' = [op |-> "increment", key |-> key, amount |-> amount,
                  outcome |-> IF incrementThrows(amount) THEN "Error" ELSE "returned"]
  /\ UNCHANGED << twin, heapq, contents, ctor, made, hlls, members >>

Next == \E key \in SketchKeys, amount \in (-1)..MaxAmount : Increment(key, amount)

Spec == Init /\ [][Next]_vars

\* The sketch under callers that pass ordinary keys only.
PlainKeys == {"a", "A"}

NextPlain == \E key \in PlainKeys, amount \in (-1)..MaxAmount : Increment(key, amount)

SpecPlain == Init /\ [][NextPlain]_vars

\* top = cms.getTopK(): the caller holds the array returned, whose elements
\* are the tuples of the heap themselves.
GetTopK ==
  /\ made
  /\ held' = [i \in 1..Len(getTopK(cms)) |->
               [count |-> getTopK(cms)[i][1], key |-> getTopK(cms)[i][2],
                live |-> TRUE]]
  /\ lastCall' = [op |-> "getTopK", key |-> "", amount |-> 0, outcome |-> "returned"]
  /\ UNCHANGED << twin, heapq, contents, ctor, made, cms, trueCount, hlls, members >>

\* top[i][0] = value, by the caller, on the array it holds: a tuple that is
\* still in the heap is the heap's tuple.
WriteHeld(i, value) ==
  /\ made
  /\ i \in 1..Len(held)
  /\ value # held[i].count
  /\ held' = [held EXCEPT ![i].count = value]
  /\ cms' = IF held[i].live
              THEN [cms EXCEPT !.heap = SetCount(cms.heap, held[i].key, value)]
              ELSE cms
  /\ lastCall' = [op |-> "write", key |-> held[i].key, amount |-> value,
                  outcome |-> "returned"]
  /\ UNCHANGED << twin, heapq, contents, ctor, made, trueCount, hlls, members >>

\* top.pop(), by the caller, on the array it holds.
TruncateHeld ==
  /\ made
  /\ Len(held) > 0
  /\ held' = SubSeq(held, 1, Len(held) - 1)
  /\ lastCall' = [op |-> "truncate", key |-> "", amount |-> 0, outcome |-> "returned"]
  /\ UNCHANGED << twin, heapq, contents, ctor, made, cms, trueCount, hlls, members >>

\* buffer = cms.serialize(); cms = CountMinSketch.deserialize(buffer): the
\* sketch is saved and read back.  Where Buffer checks ranges although
\* noAssert is passed, serialize throws on a key length above 255; the
\* restored sketch has tuples of its own, so an array held from before is
\* no longer the heap's.
Reload ==
  /\ made
  /\ \E checked \in BOOLEAN :
       IF checked /\ serializeOverflows(cms)
         THEN /\ cms' = cms
              /\ held' = held
              /\ lastCall' = [op |-> "reload", key |-> "", amount |-> 0,
                              outcome |-> "RangeError"]
         ELSE /\ cms' = deserialize(serialize(cms))
              /\ held' = [i \in 1..Len(held) |-> [held[i] EXCEPT !.live = FALSE]]
              /\ lastCall' = [op |-> "reload", key |-> "", amount |-> 0,
                              outcome |-> "returned"]
  /\ UNCHANGED << twin, heapq, contents, ctor, made, trueCount, hlls, members >>

\* The sketch saved and read back between increments, one key being longer
\* than 255 bytes.
SerialKeys == {"a", "A", "long"}

NextSerial ==
  \/ \E key \in SerialKeys, amount \in 1..MaxAmount : Increment(key, amount)
  \/ Reload

SpecSerial == Init /\ [][NextSerial]_vars

\* twin = CountMinSketch.deserialize(cms.serialize())
Copy ==
  /\ made
  /\ twin = NoSketch
  /\ twin' = deserialize(serialize(cms))
  /\ lastCall' = [op |-> "copy", key |-> "", amount |-> 0,
                  outcome |-> "returned"]
  /\ UNCHANGED << heapq, contents, ctor, made, cms, trueCount, hlls, members,
                  held >>

\* increment(key, amount) on the sketch and, once there is one, on its twin.
IncrementBoth(key, amount) ==
  /\ made
  /\ Total + amount <= MaxTotal
  /\ cms' = increment(cms, key, amount)
  /\ twin' = IF twin = NoSketch THEN twin ELSE increment(twin, key, amount)
  /\ trueCount' = [trueCount EXCEPT ![key] = @ + amount]
  /\ held' = Aliased(held, cms'.heap)
  /\ lastCall' = [op |-> "increment", key |-> key, amount |-> amount,
                  outcome |-> "returned"]
  /\ UNCHANGED << heapq, contents, ctor, made, hlls, members >>

TwinKeys == {"a", "A", "b"}

NextTwin ==
  \/ \E key \in TwinKeys, amount \in 1..MaxAmount : IncrementBoth(key, amount)
  \/ Copy

SpecTwin == Init /\ [][NextTwin]_vars

\* ------------------------------------------------------------------------
\* Two HyperLogLog structures, filled and merged
\* ------------------------------------------------------------------------

\* The standard errors the structures are made with, in hundredths: 0.60
\* gives 4 registers, 0.80 gives 2.
StdErrors == {60, 80}

Sketches == {"h1", "h2"}

\* Keys that fall into different registers and into the same register with
\* different ranks.
HllKeys == {"a", "b", "hp4gi_", "toString", "user2"}

NoCtor == [maxEntries |-> Null, depth |-> 0, rawWidth |-> 0, draws |-> << >>]

InitHLL ==
  /\ \E stdError \in [Sketches -> StdErrors] :
       hlls = [s \in Sketches |-> NewHyperLogLog(stdError[s])]
  /\ members = [s \in Sketches |-> {}]
  /\ lastCall = [op |-> "new HyperLogLog", key |-> "", amount |-> 0,
                 outcome |-> "returned"]
  /\ ctor = NoCtor
  /\ made = FALSE
  /\ cms = NoSketch
  /\ trueCount = [k \in Keys |-> 0]
  /\ held = << >>
  /\ twin = NoSketch
  /\ heapq = << >>
  /\ contents = NoItems

\* hlls[s].add(key)
Add(s, key) ==
  /\ s \in DOMAIN hlls
  /\ hlls' = [hlls EXCEPT ![s] = add(hlls[s], key)]
  /\ members' = [members EXCEPT ![s] = @ \cup {key}]
  /\ lastCall' = [op |-> "add", key |-> key, amount |-> 0, outcome |-> "returned"]
  /\ UNCHANGED << twin, heapq, contents, ctor, made, cms, trueCount, held >>

\* hlls[s].merge(hlls[t])
Merge(s, t) ==
  /\ s \in DOMAIN hlls
  /\ t \in DOMAIN hlls
  /\ hlls' = [hlls EXCEPT ![s] = merge(hlls[s], hlls[t])]
  /\ members' = IF mergeThrows(hlls[s], hlls[t]) THEN members
                ELSE [members EXCEPT ![s] = @ \cup members[t]]
  /\ lastCall' = [op |-> "merge", key |-> "", amount |-> 0,
                  outcome |-> IF mergeThrows(hlls[s], hlls[t])
                                THEN "Error" ELSE "returned"]
  /\ UNCHANGED << twin, heapq, contents, ctor, made, cms, trueCount, held >>

NextHLL ==
  \/ \E s \in Sketches, key \in HllKeys : Add(s, key)
  \/ \E s \in Sketches, t \in Sketches : Merge(s, t)

SpecHLL == InitHLL /\ [][NextHLL]_vars

\* hlls[s] = HyperLogLog.deserialize(hlls[s].serialize()): the structure is
\* saved and read back.
ReloadHLL(s) ==
  /\ s \in DOMAIN hlls
  /\ LET buffer == serializeHLL(hlls[s])
     IN  /\ hlls' = IF deserializeOutcomeHLL(buffer, Undefined, Undefined) = "returned"
                      THEN [hlls EXCEPT ![s] = deserializeHLL(buffer, Undefined, Undefined)]
                      ELSE hlls
         /\ lastCall' = [op |-> "reload", key |-> s, amount |-> Len(buffer),
                         outcome |-> deserializeOutcomeHLL(buffer, Undefined, Undefined)]
  /\ UNCHANGED << twin, heapq, contents, ctor, made, cms, trueCount, members, held >>

\* Two structures filled, merged, saved and read back.
WireKeys == {"a", "b", "hp4gi_"}

NextWire ==
  \/ \E s \in Sketches, key \in WireKeys : Add(s, key)
  \/ \E s \in Sketches, t \in Sketches : Merge(s, t)
  \/ \E s \in Sketches : ReloadHLL(s)

SpecWire == InitHLL /\ [][NextWire]_vars

\* The buffers handed to deserialize: the serialized form of a structure
\* cut to some length, behind some bytes of something else.
CutLengths == {8, 12, 14, 20}

FrontLengths == {0, 4}

Starts == {Undefined, 0, 4}

Lengths == {Undefined, 0, 8, 12, 14, 16}

BufferOf(h, front, cut) ==
  [i \in 1..front |-> 7] \o SubSeq(serializeHLL(h), 1, cut)

\* HyperLogLog.deserialize(buffer, start, length), by a caller that keeps
\* what it returns apart from the structures it fills.
Deserialize(s, front, cut, start, length) ==
  /\ s \in DOMAIN hlls
  /\ cut <= Len(serializeHLL(hlls[s]))
  /\ LET buffer == BufferOf(hlls[s], front, cut)
         outcome == deserializeOutcomeHLL(buffer, start, length)
     IN  lastCall' = [op |-> "deserialize", key |-> s, amount |-> Len(buffer),
                      outcome |-> outcome, start |-> start, length |-> length,
                      result |-> IF outcome = "returned"
                                   THEN deserializeHLL(buffer, start, length)
                                   ELSE NoSketch]
  /\ UNCHANGED << twin, heapq, contents, ctor, made, cms, trueCount, hlls, members, held >>

\* One structure filled by add, and what deserialize makes of its bytes.
NextParse ==
  \/ \E key \in WireKeys : Add("h1", key)
  \/ \E front \in FrontLengths, cut \in CutLengths \cup {28},
        start \in Starts, length \in Lengths :
          Deserialize("h1", front, cut, start, length)

\* One HyperLogLog structure, filled by add alone.
Solo == {"h1"}

SoloKeys == HllKeys \cup {"constructor"}

InitSolo ==
  /\ \E stdError \in StdErrors :
       hlls = [s \in Solo |-> NewHyperLogLog(stdError)]
  /\ members = [s \in Solo |-> {}]
  /\ lastCall = [op |-> "new HyperLogLog", key |-> "", amount |-> 0,
                 outcome |-> "returned"]
  /\ ctor = NoCtor
  /\ made = FALSE
  /\ cms = NoSketch
  /\ trueCount = [k \in Keys |-> 0]
  /\ held = << >>
  /\ twin = NoSketch
  /\ heapq = << >>
  /\ contents = NoItems

NextSolo == \E s \in Solo, key \in SoloKeys : Add(s, key)

SpecSolo == InitSolo /\ [][NextSolo]_vars

SpecParse == InitSolo /\ [][NextParse]_vars

\* new HyperLogLog(stdError) for the stdError that give 64, 32, 16, 8, 4 and
\* 2 registers, then add and count.
CountErrors == {15, 20, 30, 50, 60, 80}

InitCount ==
  /\ \E stdError \in CountErrors :
       hlls = [s \in Solo |-> NewHyperLogLog(stdError)]
  /\ members = [s \in Solo |-> {}]
  /\ lastCall = [op |-> "new HyperLogLog", key |-> "", amount |-> 0,
                 outcome |-> "returned"]
  /\ ctor = NoCtor
  /\ made = FALSE
  /\ cms = NoSketch
  /\ trueCount = [k \in Keys |-> 0]
  /\ held = << >>
  /\ twin = NoSketch
  /\ heapq = << >>
  /\ contents = NoItems

\* hlls[s].count()
Count(s) ==
  /\ lastCall' = [op |-> "count", key |-> s, amount |-> 0,
                  outcome |-> "returned", result |-> count(hlls[s])]
  /\ UNCHANGED << twin, heapq, contents, ctor, made, cms, trueCount, hlls, members,
                  held >>

NextCount ==
  \/ \E key \in HllKeys : Add("h1", key)
  \/ Count("h1")

SpecCount == InitCount /\ [][NextCount]_vars

\* A HyperLogLog and a CountMinSketch, and deserialize called on buffers
\* that hold their bytes after front other bytes.
InitOffset ==
  /\ \E stdError \in StdErrors :
       hlls = [s \in Solo |-> NewHyperLogLog(stdError)]
  /\ members = [s \in Solo |-> {}]
  /\ \E c \in Configs :
       ctor = [maxEntries |-> MaxEntries, depth |-> c.depth,
               rawWidth |-> c.rawWidth, draws |-> c.draws]
  /\ made = TRUE
  /\ cms = NewSketch(ctor.maxEntries, ctor.depth, ctor.rawWidth, ctor.draws)
  /\ trueCount = [k \in Keys |-> 0]
  /\ lastCall = [op |-> "new", key |-> "", amount |-> 0, outcome |-> "returned"]
  /\ held = << >>
  /\ twin = NoSketch
  /\ heapq = << >>
  /\ contents = NoItems

\* CountMinSketch.deserialize(buffer, start, length), by a caller that keeps
\* what it returns apart from the sketch.
DeserializeSketch(front, start, length) ==
  /\ made
  /\ LET buffer == [i \in 1..front |-> 7] \o serialize(cms)
         outcome == deserializeOutcome(buffer, start, length)
     IN  lastCall' = [op |-> "CountMinSketch.deserialize", key |-> "",
                      amount |-> Len(buffer), outcome |-> outcome,
                      start |-> start, length |-> length,
                      result |-> IF outcome = "returned"
                                   THEN deserializeAt(buffer, start, length)
                                   ELSE NoSketch]
  /\ UNCHANGED << twin, heapq, contents, ctor, made, cms, trueCount, hlls,
                  members, held >>

\* How many increments fill the sketch before its bytes are taken.
MaxFilled == 3

\* The lengths a caller passes: none, 0, or that of the structure.
LengthsOf(n) == {Undefined, 0, n}

\* The calls on the sketch's bytes either fail the range check or have start
\* where the bytes begin.
NextOffset ==
  \/ Add("h1", "a")
  \/ \E key \in PlainKeys : Total < MaxFilled /\ Increment(key, 1)
  \/ \E front \in FrontLengths, start \in Starts,
        length \in LengthsOf(Len(serializeHLL(hlls["h1"]))) :
          Deserialize("h1", front, Len(serializeHLL(hlls["h1"])), start, length)
  \/ \E front \in FrontLengths, start \in Starts,
        length \in LengthsOf(Len(serialize(cms))) :
          /\ \/ OrDefault(start, 0) = front
             \/ deserializeOutcome([i \in 1..front |-> 7] \o serialize(cms),
                                   start, length) = "Error"
          /\ DeserializeSketch(front, start, length)

SpecOffset == InitOffset /\ [][NextOffset]_vars

\* Three HyperLogLog structures of one size, filled and merged.
Trio == {"h1", "h2", "h3"}

TrioKeys == {"a", "b", "user2"}

InitTrio ==
  /\ \E stdError \in StdErrors :
       hlls = [s \in Trio |-> NewHyperLogLog(stdError)]
  /\ members = [s \in Trio |-> {}]
  /\ lastCall = [op |-> "new HyperLogLog", key |-> "", amount |-> 0,
                 outcome |-> "returned"]
  /\ ctor = NoCtor
  /\ made = FALSE
  /\ cms = NoSketch
  /\ trueCount = [k \in Keys |-> 0]
  /\ held = << >>
  /\ twin = NoSketch
  /\ heapq = << >>
  /\ contents = NoItems

NextTrio ==
  \/ \E s \in Trio, key \in TrioKeys : Add(s, key)
  \/ \E s \in Trio, t \in Trio : Merge(s, t)

SpecTrio == InitTrio /\ [][NextTrio]_vars

\* ------------------------------------------------------------------------
\* The constructors, called with parameters inside and outside (0, 1)
\* ------------------------------------------------------------------------

\* Whether new HyperLogLog(stdError) throws, stdError >= 0 in hundredths:
\* for 0, k and m are Infinity; from 1.04 * sqrt(2) on, k is negative and m
\* no integer; new Array(m) throws a RangeError for both.
HyperLogLogThrows(stdError) ==
  stdError = 0 \/ stdError * stdError >= 2 * 104 * 104

\* Math.ceil(Math.E / epsilon), epsilon >= 1 in hundredths: the least w
\* from w0 on with w * epsilon >= 271.83, which for integers is >= 272.
RECURSIVE RawWidth(_, _)
RawWidth(epsilon, w0) ==
  IF w0 * epsilon >= 272 THEN w0 ELSE RawWidth(epsilon, w0 + 1)

\* e^d in thousandths, for d = 1..5.
ExpThousandths == << 2718, 7389, 20086, 54598, 148413 >>

\* Math.max(Math.ceil(Math.log(1.0 / delta)), 1), delta >= 1 in hundredths:
\* the least d from d0 on with delta * e^d >= 1.
RECURSIVE Depth(_, _)
Depth(delta, d0) ==
  IF delta * ExpThousandths[d0] >= 100000 THEN d0 ELSE Depth(delta, d0 + 1)

\* Whether new CountMinSketch(maxEntries, epsilon, delta) throws, epsilon
\* and delta >= 0 in hundredths: width or depth is Infinity for a 0, and
\* new Array throws a RangeError.
CountMinSketchThrows(maxEntries, epsilon, delta) ==
  ConstructorThrows(maxEntries) \/ epsilon = 0 \/ delta = 0

\* getViewsObjSize for the depth and width that it computes from failRate
\* and errFactor.
ViewsObjSize(depth, width) == 4 + 8 + depth * width * 4 + 4 + depth * 4 + 4

\* getViewsObjSize(errFactor, failRate), both >= 1 in hundredths
getViewsObjSize(errFactor, failRate) ==
  ViewsObjSize(Depth(failRate, 1), RawWidth(errFactor, 1))

\* The parameters the constructors are called with, in hundredths.
CtorParams == {0, 50, 100}

InitCtor ==
  /\ \/ \E stdError \in CtorParams \cup {60} :
          /\ ctor = [kind |-> "HyperLogLog", stdError |-> stdError]
          /\ hlls = IF HyperLogLogThrows(stdError) THEN << >>
                    ELSE [s \in Solo |-> NewHyperLogLog(stdError)]
          /\ members = IF HyperLogLogThrows(stdError) THEN << >>
                       ELSE [s \in Solo |-> {}]
          /\ made = FALSE
          /\ cms = NoSketch
          /\ lastCall = [op |-> "new HyperLogLog", key |-> "", amount |-> 0,
                         outcome |-> IF HyperLogLogThrows(stdError)
                                       THEN "RangeError" ELSE "returned"]
     \/ \E epsilon \in CtorParams, delta \in CtorParams :
          /\ ctor = [kind |-> "CountMinSketch", maxEntries |-> MaxEntries,
                     epsilon |-> epsilon, delta |-> delta]
          /\ made = ~CountMinSketchThrows(MaxEntries, epsilon, delta)
          /\ cms = IF made
                     THEN NewSketch(MaxEntries, Depth(delta, 1), RawWidth(epsilon, 1),
                                    [i \in 1..Depth(delta, 1) |-> 0])
                     ELSE NoSketch
          /\ hlls = << >>
          /\ members = << >>
          /\ lastCall = [op |-> "new", key |-> "", amount |-> 0,
                         outcome |-> IF made THEN "returned" ELSE "RangeError"]
  /\ trueCount = [k \in Keys |-> 0]
  /\ held = << >>
  /\ twin = NoSketch
  /\ heapq = << >>
  /\ contents = NoItems

NextCtor ==
  \/ \E key \in WireKeys : Add("h1", key)
  \/ \E key \in PlainKeys, amount \in 1..MaxAmount : Increment(key, amount)

SpecCtor == InitCtor /\ [][NextCtor]_vars

\* ------------------------------------------------------------------------
\* A MinHeap on its own: new MinHeap(array, sortAsc), push and pop
\* ------------------------------------------------------------------------

\* How often item occurs in the array h.
Occurrences(h, item) == Cardinality({i \in 1..Len(h) : h[i] = item})

RECURSIVE ArraysUpTo(_)
ArraysUpTo(n) ==
  IF n = 0 THEN {<< >>}
  ELSE LET shorter == ArraysUpTo(n - 1)
       IN  shorter \cup {Append(a, item) : a \in {b \in shorter : Len(b) = n - 1},
                                          item \in RestoredItems}

\* new MinHeap(array, sortAsc): the array is heapified in place.
InitHeap ==
  /\ \E array \in ArraysUpTo(MaxInitial) :
       /\ heapq = heapifyArray(array)
       /\ contents = [item \in HeapItems |-> Occurrences(array, item)]
       /\ lastCall = [op |-> "new MinHeap", key |-> "", amount |-> Len(array),
                      outcome |-> "returned", result |-> << >>]
  /\ ctor = NoCtor
  /\ made = FALSE
  /\ cms = NoSketch
  /\ trueCount = [k \in Keys |-> 0]
  /\ hlls = << >>
  /\ members = << >>
  /\ held = << >>
  /\ twin = NoSketch

\* heapq.push(item)
Push(item) ==
  /\ Len(heapq) < MaxHeapSize
  /\ heapq' = push(heapq, item)
  /\ contents' = [contents EXCEPT ![item] = @ + 1]
  /\ lastCall' = [op |-> "push", key |-> item[2], amount |-> item[1],
                  outcome |-> "returned", result |-> << >>]
  /\ UNCHANGED << twin, ctor, made, cms, trueCount, hlls, members, held >>

\* heapq.pop(); result holds the value returned, nothing when it is
\* undefined.
Pop ==
  /\ heapq' = PopHeap(heapq)
  /\ IF Len(heapq) = 0
       THEN /\ contents' = contents
            /\ lastCall' = [op |-> "pop", key |-> "", amount |-> 0,
                            outcome |-> "undefined", result |-> << >>]
       ELSE /\ contents' = [contents EXCEPT ![PopValue(heapq)] = @ - 1]
            /\ lastCall' = [op |-> "pop", key |-> PopValue(heapq)[2],
                            amount |-> PopValue(heapq)[1],
                            outcome |-> "returned",
                            result |-> << PopValue(heapq) >>]
  /\ UNCHANGED << twin, ctor, made, cms, trueCount, hlls, members, held >>

NextHeap ==
  \/ \E item \in HeapItems : Push(item)
  \/ Pop

SpecHeap == InitHeap /\ [][NextHeap]_vars

\* The sketch with a caller that keeps and changes what getTopK() returned.
NextView ==
  \/ \E key \in PlainKeys, amount \in 1..MaxAmount : Increment(key, amount)
  \/ GetTopK
  \/ \E i \in 1..MaxEntries : WriteHeld(i, 0)
  \/ TruncateHeld

SpecView == Init /\ [][NextView]_vars

\* ------------------------------------------------------------------------
\* Properties of the CountMinSketch
\* ------------------------------------------------------------------------

\* The keys the top-K set tracks.
TrackedKeys(s) == {s.heap[i][2] : i \in 1..Len(s.heap)}

\* The counts getTopK() reports for key.
ReportedCounts(s, key) ==
  {getTopK(s)[i][1] : i \in {n \in 1..Len(s.heap) : getTopK(s)[n][2] = key}}

\* C1: the sketch never underestimates: for every key the minimum of its
\* buckets is at least the sum of the amounts incremented for it, and so is
\* the count getTopK() reports for a tracked key.
C1_NeverUnderestimates ==
  made =>
    \A k \in PlainKeys :
      /\ GreaterOrEqual(Estimate(cms, k), trueCount[k])
      /\ \A c \in ReportedCounts(cms, k) : GreaterOrEqual(c, trueCount[k])

\* C2: a sketch constructed with maxEntries >= 1 never tracks more than
\* maxEntries keys: getTopK().length <= maxEntries.
C2_TopKBounded ==
  (made /\ ctor.maxEntries >= 1) =>
    /\ Len(getTopK(cms)) <= ctor.maxEntries
    /\ Len(cms.heap) <= ctor.maxEntries
    /\ Cardinality(cms.map) <= ctor.maxEntries
    /\ cms.mapLen <= ctor.maxEntries

\* The top-K set is full and more keys were incremented than it holds.
C2_Witness ==
  /\ made
  /\ Len(getTopK(cms)) = ctor.maxEntries
  /\ Cardinality({k \in Keys : trueCount[k] > 0}) > ctor.maxEntries

\* The tuples of the top-K set.
Entries(s) == {s.heap[i] : i \in 1..Len(s.heap)}

\* The lowest of the tracked counts that are numbers.
MinTracked(s) ==
  CHOOSE c \in {e[1] : e \in Entries(s)} :
    \A e \in Entries(s) : IsNumber(e[1]) => c <= e[1]

\* The policy for an untracked key that yields count c, from sketch s to t.
UntrackedPolicy(s, t, key, c) ==
  /\ Len(s.heap) < s.maxEntries =>
       /\ Entries(t) = Entries(s) \cup {<< c, key >>}
       /\ Len(t.heap) = Len(s.heap) + 1
  /\ (Len(s.heap) = s.maxEntries /\ ~(IsNumber(c) /\ c > MinTracked(s))) =>
       /\ t.heap = s.heap
       /\ t.map = s.map
  /\ (Len(s.heap) = s.maxEntries /\ IsNumber(c) /\ c > MinTracked(s)) =>
       /\ Len(t.heap) = s.maxEntries
       /\ \E old \in Entries(s) :
            /\ old[1] = MinTracked(s)
            /\ Entries(t) = (Entries(s) \ {old}) \cup {<< c, key >>}
            /\ t.map = (s.map \ {old[2]}) \cup {key}

\* C3: an increment of an untracked key that yields count c adds (c, key)
\* while fewer than maxEntries keys are tracked; with maxEntries keys
\* tracked it leaves the set as it was when c does not exceed the minimum
\* tracked count, and else adds (c, key) and removes one entry that holds
\* the minimum, from the heap and from the key index.
C3_UntrackedPolicy ==
  [][(/\ lastCall'.op = "increment"
      /\ lastCall'.amount >= 1
      /\ lastCall'.key \notin TrackedKeys(cms))
       => UntrackedPolicy(cms, cms', lastCall'.key,
                          Plus(Estimate(cms, lastCall'.key), lastCall'.amount))]_vars

\* No element compares less than its parent.
HeapOrdered(h) ==
  \A i \in 1..(Len(h) - 1) : compare(h[i + 1], h[parent(i) + 1]) # "neg"

\* C4: an increment by amount >= 1 of a tracked key leaves that key's single
\* entry with count est + amount, adds and removes no entry, and leaves the
\* heap in heap order.
C4_TrackedPolicy ==
  [][(/\ lastCall'.op = "increment"
      /\ lastCall'.amount >= 1
      /\ lastCall'.key \in TrackedKeys(cms))
       => /\ ReportedCounts(cms', lastCall'.key) =
               {Plus(Estimate(cms, lastCall'.key), lastCall'.amount)}
          /\ Cardinality({i \in 1..Len(cms'.heap) : cms'.heap[i][2] = lastCall'.key}) = 1
          /\ TrackedKeys(cms') = TrackedKeys(cms)
          /\ Len(cms'.heap) = Len(cms.heap)
          /\ HeapOrdered(cms'.heap)]_vars

\* C5 as stated: in the result of getTopK() every element's count is
\* strictly greater than the count of the element after it.
C5_StrictlyDescending ==
  made =>
    \A i \in 1..(Len(getTopK(cms)) - 1) :
      Difference(getTopK(cms)[i][1], getTopK(cms)[i + 1][1]) = "pos"

\* C5, amended: getTopK() returns the tracked pairs sorted descending by
\* count, equal counts allowed: no element's count is less than the count
\* of the element after it.
C5_Descending ==
  made =>
    /\ Len(getTopK(cms)) = Len(cms.heap)
    /\ {getTopK(cms)[i] : i \in 1..Len(cms.heap)} = Entries(cms)
    /\ \A i \in 1..(Len(getTopK(cms)) - 1) :
         Difference(getTopK(cms)[i][1], getTopK(cms)[i + 1][1]) # "neg"

\* Two keys are tracked with different counts, and getTopK() lists them in
\* another order than the heap's array.
C5_Witness ==
  /\ made
  /\ Len(getTopK(cms)) >= 2
  /\ getTopK(cms)[1][1] > getTopK(cms)[2][1]
  /\ getTopK(cms) # cms.heap

\* C6: a sketch with maxEntries 0 can be constructed, and tracks no key.
C6_ZeroEntries ==
  ctor.maxEntries = 0 => (made /\ Len(getTopK(cms)) = 0)

\* C7: increment with a negative amount fails with an error, with amount 0
\* it returns; either way the counts, the heap and the key index stay as
\* they were.
C7_NoOpAmounts ==
  [][(lastCall'.op = "increment" /\ lastCall'.amount <= 0)
       => /\ cms' = cms
          /\ lastCall'.outcome = IF lastCall'.amount < 0 THEN "Error" ELSE "returned"]_vars

\* A negative increment has just failed on a sketch that tracks a key.
C7_Witness ==
  /\ lastCall.op = "increment"
  /\ lastCall.amount < 0
  /\ lastCall.outcome = "Error"
  /\ Len(cms.heap) > 0

\* What the caller reads in the array it holds: the (count, key) pairs.
Shown(array) == [i \in 1..Len(array) |-> << array[i].count, array[i].key >>]

\* C8: getTopK() returns a snapshot: no later increment changes what an
\* array returned earlier shows, and changing that array or its elements
\* does not change the sketch.
C8_Snapshot ==
  [][/\ lastCall'.op = "increment" => Shown(held') = Shown(held)
     /\ lastCall'.op \in {"write", "truncate"} => cms' = cms]_vars
\* C9: saving a sketch and reading it back gives a sketch with the same
\* grid of counts, the same lgWidth, the same hash coefficients and the same
\* getTopK() result, whatever strings the keys are.
C9_RoundTrip ==
  [][lastCall'.op = "reload"
       => /\ lastCall'.outcome = "returned"
          /\ cms'.counts = cms.counts
          /\ cms'.lgWidth = cms.lgWidth
          /\ cms'.hashFunctions = cms.hashFunctions
          /\ getTopK(cms') = getTopK(cms)]_vars
\* A structure of the size of h to which every key of a set was added, and
\* nothing else.
RECURSIVE WithAll(_, _)
WithAll(h, keys) ==
  IF keys = {} THEN h
  ELSE LET key == CHOOSE k \in keys : TRUE
       IN  WithAll(add(h, key), keys \ {key})

Empty(h) == [h EXCEPT !.M = [i \in 1..Len(h.M) |-> 0]]

\* C10: the registers of a structure are those of a structure of its size
\* to which every key that went into it, by add or by merge, was added: a
\* merge gives the registers of the union of the two key sets.  A merge
\* that brings no key the structure did not have leaves its registers as
\* they were.
C10_MergeIsUnion ==
  /\ [](\A s \in DOMAIN hlls : hlls[s].M = WithAll(Empty(hlls[s]), members[s]).M)
  /\ [][(lastCall'.op = "merge" /\ members' = members) => hlls' = hlls]_vars

\* Two structures that held different keys, with registers that differed,
\* have been merged.
C10_Witness ==
  /\ lastCall.op = "merge"
  /\ lastCall.outcome = "returned"
  /\ \E s \in DOMAIN hlls, t \in DOMAIN hlls :
       /\ s # t
       /\ members[t] # {}
       /\ members[t] # members[s]
       /\ members[t] \subseteq members[s]
       /\ hlls[s].M # hlls[t].M
       /\ \E i \in 1..Len(hlls[s].M) : hlls[s].M[i] > 1

\* C11: on structures of equal size merge is commutative, associative and
\* idempotent on the registers: a.merge(b) and b.merge(a) give the same
\* registers, merging b then c into a gives what merging (b merged with c)
\* into a gives, and merging a structure with itself, or the same structure
\* a second time, changes no register.
C11_MergeAlgebra ==
  \A a \in DOMAIN hlls, b \in DOMAIN hlls, c \in DOMAIN hlls :
    (Len(hlls[a].M) = Len(hlls[b].M) /\ Len(hlls[b].M) = Len(hlls[c].M)) =>
      /\ merge(hlls[a], hlls[b]).M = merge(hlls[b], hlls[a]).M
      /\ merge(merge(hlls[a], hlls[b]), hlls[c]).M
           = merge(hlls[a], merge(hlls[b], hlls[c])).M
      /\ merge(hlls[a], hlls[a]).M = hlls[a].M
      /\ merge(merge(hlls[a], hlls[b]), hlls[b]).M = merge(hlls[a], hlls[b]).M

\* Three structures whose registers differ pairwise, none of them holding
\* the registers of the merge of the other two, one of them the result of a
\* merge.
C11_Witness ==
  /\ lastCall.op = "merge"
  /\ lastCall.outcome = "returned"
  /\ DOMAIN hlls = Trio
  /\ hlls["h1"].M # hlls["h2"].M
  /\ hlls["h2"].M # hlls["h3"].M
  /\ hlls["h1"].M # hlls["h3"].M
  /\ \A s \in Trio : hlls[s].M # Empty(hlls[s]).M
  /\ merge(hlls["h1"], hlls["h2"]).M \notin {hlls["h1"].M, hlls["h2"].M}
  /\ merge(hlls["h2"], hlls["h3"]).M \notin {hlls["h2"].M, hlls["h3"].M}

\* The registers in which two structures of one size differ.
Changed(g, h) == {i \in 1..Len(h.M) : g.M[i] # h.M[i]}

NonZero(h) == {i \in 1..Len(h.M) : h.M[i] # 0}

\* C12: add is idempotent and order-independent: adding a key again changes
\* no register, two adds give the same registers in either order, an add
\* changes at most one register, and a structure has no more non-zero
\* registers than distinct keys went into it.
C12_AddIdempotent ==
  \A s \in DOMAIN hlls :
    /\ Cardinality(NonZero(hlls[s])) <= Cardinality(members[s])
    /\ \A k \in members[s] : add(hlls[s], k) = hlls[s]
    /\ \A k1 \in SoloKeys :
         /\ add(add(hlls[s], k1), k1) = add(hlls[s], k1)
         /\ Cardinality(Changed(add(hlls[s], k1), hlls[s])) <= 1
         /\ \A k2 \in SoloKeys :
              add(add(hlls[s], k1), k2) = add(add(hlls[s], k2), k1)

\* A key has just been added to a structure that holds more keys than it
\* has non-zero registers: keys of different rank met in one register.
C12_Witness ==
  /\ lastCall.op = "add"
  /\ \E s \in DOMAIN hlls :
       /\ lastCall.key \in members[s]
       /\ Cardinality(members[s]) >= 3
       /\ Cardinality(NonZero(hlls[s])) >= 2
       /\ Cardinality(NonZero(hlls[s])) < Cardinality(members[s])

\* C13: merge(other) with another number of registers fails with an error
\* and leaves the registers of this structure as they were, it fails in no
\* other case, and no merge changes the registers of the other structure.
C13_MergeMismatch ==
  [][\A s \in DOMAIN hlls, t \in DOMAIN hlls :
       Merge(s, t) =>
         /\ hlls'[t].M = hlls[t].M
         /\ (lastCall'.outcome = "Error") = (Len(hlls[t].M) # Len(hlls[s].M))
         /\ Len(hlls[t].M) # Len(hlls[s].M) => hlls'[s] = hlls[s]
         /\ \A u \in DOMAIN hlls \ {s} : hlls'[u] = hlls[u]]_vars

\* A merge has just failed between structures of different sizes, one of
\* which holds a register above the other's.
C13_Witness ==
  /\ lastCall.op = "merge"
  /\ lastCall.outcome = "Error"
  /\ \E s \in DOMAIN hlls, t \in DOMAIN hlls :
       /\ Len(hlls[s].M) # Len(hlls[t].M)
       /\ hlls[s].M[1] > hlls[t].M[1]
       /\ hlls[t].M[2] > hlls[s].M[2]

\* C14: serialize() of a structure has 12 + 4 * m bytes, which is what
\* getUniquesObjSize gives for its stdError (65548 for 0.01), and
\* deserialize(serialize(h)) has the registers, k_comp and alpha_m of h, so
\* that count() and every further add and merge do with it what they do
\* with h.
C14_RoundTripHLL ==
  /\ getUniquesObjSize(1) = 65548
  /\ \A e \in StdErrors :
       Len(serializeHLL(NewHyperLogLog(e))) = getUniquesObjSize(e)
  /\ \A s \in DOMAIN hlls :
       /\ Len(serializeHLL(hlls[s])) = 12 + 4 * Len(hlls[s].M)
       /\ deserializeOutcomeHLL(serializeHLL(hlls[s]), Undefined, Undefined) = "returned"
       /\ deserializeHLL(serializeHLL(hlls[s]), Undefined, Undefined) = hlls[s]

\* A structure that holds ranks from add and from merge, one of them above
\* 30, has just been saved and read back.
C14_Witness ==
  /\ lastCall.op = "reload"
  /\ lastCall.outcome = "returned"
  /\ lastCall.key \in DOMAIN hlls
  /\ lastCall.amount = 28
  /\ Cardinality(NonZero(hlls[lastCall.key])) >= 2
  /\ \E i \in 1..Len(hlls[lastCall.key].M) : hlls[lastCall.key].M[i] > 30
  /\ Cardinality(members[lastCall.key]) = 3

\* C15: deserialize(buffer, start, length) fails whenever start + length
\* exceeds the buffer's length or length is not 12 + 4 * m for an m >= 0,
\* and returns a structure of exactly m registers otherwise.  A start or
\* length left out counts as 0 and as the buffer's length.
C15_DeserializeValidates ==
  [][lastCall'.op = "deserialize" =>
       LET start == IF lastCall'.start = Undefined THEN 0 ELSE lastCall'.start
           length == IF lastCall'.length = Undefined THEN lastCall'.amount
                     ELSE lastCall'.length
           invalid == \/ start + length > lastCall'.amount
                      \/ length < 12
                      \/ (length - 12) % 4 # 0
       IN  /\ invalid => lastCall'.outcome # "returned"
           /\ ~invalid => /\ lastCall'.outcome = "returned"
                          /\ Len(lastCall'.result.M) = (length - 12) \div 4]_vars

\* C16: a HyperLogLog constructed with stdError outside (0, 1), and a
\* CountMinSketch constructed with epsilon or delta outside (0, 1), is
\* rejected: no instance exists that could be used.
C16_CtorValidation ==
  /\ (ctor.kind = "HyperLogLog" /\ ctor.stdError \notin 1..99) => hlls = << >>
  /\ (ctor.kind = "CountMinSketch"
        /\ (ctor.epsilon \notin 1..99 \/ ctor.delta \notin 1..99)) => ~made

\* C17: while only one distinct key has been incremented on a sketch made
\* with maxEntries >= 1, by positive amounts, getTopK() is the one-element
\* list of (the sum of the amounts, the key).
C17_SingleKeyExact ==
  (made /\ ctor.maxEntries >= 1) =>
    \A k \in Keys :
      (trueCount[k] > 0 /\ \A other \in Keys \ {k} : trueCount[other] = 0)
        => getTopK(cms) = << << trueCount[k], k >> >>

\* The bytes the tracked entries take in the serialized form: 5 and the
\* UTF-8 length of the key, for each.
RECURSIVE EntryBytesTotal(_, _)
EntryBytesTotal(heap, n) ==
  IF n = 0 THEN 0
  ELSE EntryBytesTotal(heap, n - 1) + 5 + ByteLength[heap[n][2]]

\* C18: serialize() of a sketch constructed with (maxEntries, epsilon,
\* delta) has getViewsObjSize(epsilon, delta) bytes plus, for each tracked
\* entry, 5 bytes plus the UTF-8 length of its key.
C18_SerializedSize ==
  (made /\ ctor.kind = "CountMinSketch") =>
    Len(serialize(cms)) = getViewsObjSize(ctor.epsilon, ctor.delta)
                            + EntryBytesTotal(cms.heap, Len(cms.heap))

\* C19: after construction from any initial array and after any sequence
\* of push and pop calls, no element of the heap compares less than its
\* parent under the comparator, and the heap holds exactly the initial
\* elements plus the pushed ones minus the popped ones, each as often.
C19_HeapOrder ==
  /\ HeapOrdered(heapq)
  /\ \A item \in HeapItems : Occurrences(heapq, item) = contents[item]

C19_Witness ==
  /\ lastCall.op = "pop"
  /\ lastCall.outcome = "returned"
  /\ Len(heapq) = 3
  /\ \E i \in 1..3 : heapq[i][1] = NaN
  /\ \E i \in 2..3 : compare(heapq[1], heapq[i]) = "neg"

\* C20: pop() on a non-empty heap returns the element getMin() returned
\* just before, no element of the heap compares less than it, exactly that
\* one element is removed and size() decreases by 1; pop() on an empty heap
\* returns undefined and leaves the heap empty, as a new heap is.
C20_PopMinimum ==
  [][lastCall'.op = "pop" =>
       IF Len(heapq) > 0
         THEN /\ lastCall'.result = << heapq[1] >>
              /\ \A i \in 1..Len(heapq) : compare(heapq[i], heapq[1]) # "neg"
              /\ Len(heapq') = Len(heapq) - 1
              /\ \A item \in HeapItems :
                   Occurrences(heapq', item) =
                     Occurrences(heapq, item) - (IF item = heapq[1] THEN 1 ELSE 0)
         ELSE /\ lastCall'.outcome = "undefined"
              /\ heapq' = << >>]_vars

\* C21: a HyperLogLog to which nothing was added yet has m = 2^k registers
\* for its k index bits, all of them 0, and count() returns 0 on it, by the
\* small range correction with V = m.
C21_FreshCountZero ==
  \A s \in DOMAIN hlls :
    members[s] = {} =>
      /\ Len(hlls[s].M) = Pow2(32 - hlls[s].k_comp)
      /\ \A i \in 1..Len(hlls[s].M) : hlls[s].M[i] = 0
      /\ IsZero(count(hlls[s]))
      /\ count(hlls[s]).V = Len(hlls[s].M)
      /\ (lastCall.op = "count" => IsZero(lastCall.result))

C21_Witness ==
  /\ lastCall.op = "count"
  /\ members["h1"] = {}
  /\ Len(hlls["h1"].M) = 64
  /\ IsZero(lastCall.result)

\* (a * x) mod 2^32 as two 16-bit halves, for a coefficient a small enough
\* that a * x is exact.
ProductMod32(a, x) ==
  << (a * x[1] + (a * x[2]) \div Limb) % Limb, (a * x[2]) % Limb >>

\* Hash values with every combination of the four highest bits.
SampleHashes == {<< t * 4096, 0 >> : t \in 0..15}

\* C22: the bucket index increment uses in a row with coefficient a is
\* ((a * x) mod 2^32) >> (32 - m) for the key's hash x and m = log2(width);
\* it lies in [0, width), and every bucket of the row is selected by some
\* hash value.
C22_BucketSelection ==
  (made /\ lastCall.op = "increment" /\ lastCall.outcome = "returned"
        /\ lastCall.amount > 0) =>
    \A i \in 1..Len(cms.hashFunctions) :
      LET a == cms.hashFunctions[i]
          m == cms.lgWidth
          j == Bucket(cms, i, lastCall.key)
      IN  /\ j = ShiftRight(ProductMod32(a, KeyHash[lastCall.key]), INT_SIZE - m)
          /\ j >= 0
          /\ j < Pow2(m)
          /\ \A b \in 0..(Pow2(m) - 1) :
               \E x \in SampleHashes : multiplyShift(m, a, x) = b

\* C23: a sketch deserialized from what a sketch constructed with
\* maxEntries >= 1 serialized returns the same getTopK() as the original
\* after every further increment made on both, and admits new keys until
\* maxEntries keys are tracked.
C23_TwinEquivalent ==
  (made /\ ctor.maxEntries >= 1 /\ twin # NoSketch) =>
    /\ getTopK(twin) = getTopK(cms)
    /\ Len(twin.heap) = Len(cms.heap)

\* The key index and the heap of s hold the same entries: every key of the
\* index has exactly one tuple in the heap, every tuple's key is in the
\* index, and mapLen is the size of the heap.
IndexMatchesHeap(s) ==
  /\ \A key \in s.map :
       Cardinality({i \in 1..Len(s.heap) : s.heap[i][2] = key}) = 1
  /\ \A i \in 1..Len(s.heap) : s.heap[i][2] \in s.map
  /\ s.mapLen = Len(s.heap)

\* C24: in every state reached by constructing or deserializing a sketch
\* and then incrementing, the key index and the heap hold exactly the same
\* entries and mapLen equals the heap size.
C24_IndexConsistent ==
  made => /\ IndexMatchesHeap(cms)
          /\ twin # NoSketch => IndexMatchesHeap(twin)

\* C25: while a key stays tracked the count getTopK() reports for it never
\* decreases: an increment of the key by an amount >= 1 leaves the reported
\* count strictly greater than before, an increment of another key leaves it
\* as it was.
C25_TrackedCountGrows ==
  [][(/\ lastCall'.op = "increment"
      /\ lastCall'.outcome = "returned"
      /\ lastCall'.amount >= 1)
       => \A k \in TrackedKeys(cms) \cap TrackedKeys(cms') :
            IF k = lastCall'.key
              THEN \A c \in ReportedCounts(cms, k), d \in ReportedCounts(cms', k) :
                     Difference(d, c) = "pos"
              ELSE ReportedCounts(cms', k) = ReportedCounts(cms, k)]_vars

\* C26 as stated: after any sequence of add and merge calls a structure
\* with k index bits has 2^k registers, each in [0, 32 - k].
C26_RegisterRange ==
  \A s \in DOMAIN hlls :
    /\ Len(hlls[s].M) = Pow2(INT_SIZE - hlls[s].k_comp)
    /\ \A i \in 1..Len(hlls[s].M) : hlls[s].M[i] \in 0..hlls[s].k_comp

\* C26, amended: after any sequence of add and merge calls a structure with
\* k index bits has 2^k registers, each in [0, 33 - k].
C26_RegisterRangeByOne ==
  \A s \in DOMAIN hlls :
    /\ Len(hlls[s].M) = Pow2(INT_SIZE - hlls[s].k_comp)
    /\ \A i \in 1..Len(hlls[s].M) : hlls[s].M[i] \in 0..(hlls[s].k_comp + 1)

\* After a merge every structure holds a register of 33 - k.
C26_Witness ==
  /\ lastCall.op = "merge"
  /\ lastCall.outcome = "returned"
  /\ \A s \in DOMAIN hlls :
       \E i \in 1..Len(hlls[s].M) : hlls[s].M[i] = hlls[s].k_comp + 1

\* Whether the cell holding v before holds no less after, as w.
NotLowered(v, w) == IsNumber(v) => (IsNumber(w) /\ w >= v)

\* C27: no increment call lowers a cell of the counts grid, whatever the
\* amount (>= 0) and whether or not the key ends up tracked, and an
\* increment that returns changes only cells at the key's own bucket index
\* of each row.
C27_GridMonotone ==
  [][(lastCall'.op = "increment" /\ lastCall'.amount >= 0)
       => /\ Len(cms'.counts) = Len(cms.counts)
          /\ \A i \in 1..Len(cms.counts) :
               /\ Len(cms'.counts[i]) = Len(cms.counts[i])
               /\ \A j \in 1..Len(cms.counts[i]) :
                    /\ NotLowered(cms.counts[i][j], cms'.counts[i][j])
                    /\ cms'.counts[i][j] # cms.counts[i][j]
                         => j = Bucket(cms, i, lastCall'.key) + 1]_vars

\* After an increment the key is not tracked; one of its cells holds what
\* was incremented for it, another holds more, from a key it shares the
\* bucket with.
C27_Witness ==
  /\ lastCall.op = "increment"
  /\ lastCall.amount >= 1
  /\ lastCall.key \in PlainKeys
  /\ lastCall.key \notin TrackedKeys(cms)
  /\ \E i \in 1..Len(cms.counts) :
       cms.counts[i][Bucket(cms, i, lastCall.key) + 1] = trueCount[lastCall.key]
  /\ \E i \in 1..Len(cms.counts) :
       cms.counts[i][Bucket(cms, i, lastCall.key) + 1] > trueCount[lastCall.key]

\* C28: HyperLogLog.deserialize and CountMinSketch.deserialize take the
\* whole buffer length for a length that is omitted or 0, whatever start
\* is: a call with start > 0 and no length fails with the range error and
\* returns no instance, also where the structure's bytes run from start to
\* the end of the buffer.
C28_DefaultLength ==
  (/\ lastCall.op \in {"deserialize", "CountMinSketch.deserialize"}
   /\ lastCall.length \in {Undefined, 0})
    => /\ lastCall.start > 0 =>
            /\ lastCall.outcome = "Error"
            /\ lastCall.result = NoSketch
       /\ (lastCall.op = "deserialize" /\ lastCall.outcome = "returned") =>
            Len(lastCall.result.M) = (lastCall.amount - 12) \div 4

C28_Witness ==
  /\ lastCall.op = "CountMinSketch.deserialize"
  /\ lastCall.start = 4
  /\ lastCall.length = Undefined
  /\ lastCall.amount = 4 + Len(serialize(cms))
  /\ Len(cms.heap) = 2
  /\ lastCall.outcome = "Error"

====
